---- MODULE Spec2Model ----
(***************************************************************************)
(* Model of the frame loop of gui/main.cpp: the shape map synchronised     *)
(* with the script interpreter, the render settings, the per-shape render  *)
(* / effects / copy_to_texture pass and the append flag.                   *)
(***************************************************************************)
EXTENDS Integers, Sequences, FiniteSets, TLC

\* ------------------------------------------------------------------ bounds
MaxId == 3          \* tree identities are 1..MaxId
NumPixels == 2      \* pixels of the display texture
MaxPanZoom == 1     \* pan and zoom events a behaviour handles

Ids == 1..MaxId
Pixels == 1..NumPixels

\* The loop copies and stores expression trees and never looks inside one:
\* two distinct expressions are enough to tell "the same" from "another".
Exprs == {"x", "y"}

\* ------------------------------------------------------- program constants
RenderSizes == {256, 512, 1024, 2048}
RENDER_MODE_2D == "2D"
RENDER_MODE_DEPTH == "DEPTH"
RENDER_MODE_NORMALS == "NORMALS"
RENDER_MODE_SSAO == "SSAO"
RENDER_MODE_SHADED == "SHADED"
\* angles are counted in hundredths of a radian, the step of one pixel of a
\* right-button drag (main.cpp:200-201)
TwoPi == 628
HalfPi == 157
Modes3D == {RENDER_MODE_DEPTH, RENDER_MODE_NORMALS, RENDER_MODE_SSAO, RENDER_MODE_SHADED}

VARIABLES
    pc,             \* position of main(): "loop", "eval", "editor", "settings", "shapes", "done", "aborted"
    shapes,         \* std::map<Tree::Id, Shape>: identity -> [tape, tree]
    ishapes,        \* interpreter.shapes: identity -> expression
    result_valid,   \* interpreter.result_valid
    needs_eval,
    render_size,
    render_dimension,
    render_mode,
    ctx,            \* mpr::Context: [image_size_px, alloc]
    append,
    itr,            \* keys of shapes the range-for has still to visit
    tex,            \* display texture: pixel -> 1 when it shows a valid sample, 0 when empty
    calls,          \* collaborator calls issued in the current frame, in order
    prevCtx,        \* ctx as the settings window of the current frame found it
    images,         \* render outputs of the current frame in order, each the set of pixels it fills
    synced,         \* pc = "editor" and the synchronisation block has just run
    syncFrom,       \* key set of shapes when that synchronisation began
    compiled,       \* identity -> mpr::Tape constructions in that synchronisation
    released,       \* identity -> Shape destructions in that synchronisation
    failed,         \* identity whose mpr::Tape construction threw in it, 0 if none
    lastGood,       \* shapes as left by the synchronisation of the last valid evaluation
    rfailed,        \* identity whose render call threw in the current frame, 0 if none
    view_center,    \* Eigen::Vector3f, exact rationals <<numerator, denominator>>
    view_scale,     \* float, as an exact rational
    view_pitch,     \* float, in hundredths of a radian
    view_yaw,       \* float, in hundredths of a radian
    model,          \* the matrix update_mats last built: the view state it was built from
    view,           \* the matrix update_mats last built: the display size it was built from
    display,        \* io.DisplaySize
    input,          \* the pointer input the current frame handled
    panned,         \* the last pan: world points before and after, NoEvent if none
    zoomed,         \* the last zoom: world points before and after, NoEvent if none
    pz,             \* pan and zoom events handled so far
    from_file,      \* the script was loaded from the file argv[1]
    just_saved,     \* a write was attempted and Super+S not yet seen released
    text,           \* the lines of the editor buffer
    file,           \* the content of the file argv[1]
    kbd,            \* the keyboard input the current frame handled
    prevKeys,       \* Super+S was down in the frame before
    reported,       \* the current frame reported a failed save
    attempted,      \* the current frame opened the file for writing
    sinceWrite,     \* a write was attempted and no frame since then handled
                    \* the keyboard with Super+S up
    init,           \* outcome of the initialisation, "pending" before it
    status,         \* exit status of main, -1 until it returns
    started,        \* a frame of the loop has begun
    should_close    \* glfwWindowShouldClose(window)

vars == <<pc, shapes, ishapes, result_valid, needs_eval, render_size,
          render_dimension, render_mode, ctx, append, itr, tex, calls,
          prevCtx, images, synced, syncFrom, compiled, released, failed, lastGood,
          rfailed, view_center, view_scale, view_pitch, view_yaw, model, view,
          display, input, panned, zoomed, pz, from_file, just_saved, text,
          file, kbd, prevKeys, reported, attempted, sinceWrite, init, status,
          started, should_close>>

procVars == <<init, status, started, should_close>>

saveVars == <<from_file, just_saved, text, file, kbd, prevKeys, reported,
              attempted, sinceWrite>>
viewState == <<view_center, view_scale, view_pitch, view_yaw>>
viewVars == <<view_center, view_scale, view_pitch, view_yaw, model, view,
              display, input, panned, zoomed, pz>>

\* ------------------------------------------------------------------ helpers
Min(S) == CHOOSE x \in S : \A y \in S : x <= y

EmptyMap == [k \in {} |-> 0]

Remove(m, k) == [x \in (DOMAIN m) \ {k} |-> m[x]]

\* std::map::emplace: inserts only when the key is absent
Emplace(m, k, v) == IF k \in DOMAIN m THEN m
                    ELSE [x \in (DOMAIN m) \cup {k} |-> IF x = k THEN v ELSE m[x]]

ZeroCount == [k \in Ids |-> 0]

\* mappings an evaluation can produce
LiveMaps == UNION {[S -> Exprs] : S \in SUBSET Ids}

\* ---------------------------------------------------------- collaborators
\* interpreter.eval(script): a valid result replaces the shape mapping, an
\* error leaves the mapping of the last valid evaluation in place
Eval(ok, live, old) == [shapes |-> IF ok THEN live ELSE old, result_valid |-> ok]

\* mpr::Tape(tree): the compiled form of the tree
Tape(tree) == [src |-> tree]

\* mpr::Context(size): working buffers of the requested size, allocated
\* while the context they replace is still alive
Context(size, old) == [image_size_px |-> size, alloc |-> 1 - old.alloc]

\* ------------------------------------------------------- shape synchronisation
\* main.cpp:270 - the entry is erased when its key is not in interpreter.shapes
IsStaleNever(k, sh, live) == FALSE
IsStaleAlways(k, sh, live) == TRUE
IsStaleOrChanged(k, sh, live) ==
    k \notin DOMAIN live \/ sh[k].tree # live[k]
IsStale(k, sh, live) == k \notin DOMAIN live

\* main.cpp:278 - a shape is created when its key is not in shapes
NeedsCreateAlways(k, sh, live) == TRUE
NeedsCreate(k, sh, live) == k \notin DOMAIN sh

\* main.cpp:268-275
RECURSIVE EraseLoop(_, _, _)
EraseLoop(keys, st, live) ==
    IF keys = {} THEN st
    ELSE LET k == Min(keys) IN
         IF IsStale(k, st.shapes, live)
         THEN EraseLoop(keys \ {k},
                        [st EXCEPT !.shapes = Remove(@, k),
                                   !.released[k] = @ + 1], live)
         ELSE EraseLoop(keys \ {k}, st, live)

\* main.cpp:277-282; fail is the identity whose tape construction throws, and
\* the Shape built for a key that emplace finds present is destroyed again
RECURSIVE CreateLoop(_, _, _, _)
CreateLoop(keys, st, live, fail) ==
    IF keys = {} THEN st
    ELSE LET k == Min(keys) IN
         IF NeedsCreate(k, st.shapes, live)
         THEN IF k = fail
              THEN [st EXCEPT !.compiled[k] = @ + 1, !.failed = k]
              ELSE CreateLoop(keys \ {k},
                       [st EXCEPT
                          !.shapes = Emplace(@, k,
                              [tape |-> Tape(live[k]), tree |-> live[k]]),
                          !.compiled[k] = @ + 1,
                          !.released[k] = @ + (IF k \in DOMAIN st.shapes THEN 1 ELSE 0)],
                       live, fail)
         ELSE CreateLoop(keys \ {k}, st, live, fail)

\* main.cpp:267-282
Synchronize(sh, live, fail) ==
    LET st0 == [shapes |-> sh, compiled |-> ZeroCount,
                released |-> ZeroCount, failed |-> 0]
        st1 == EraseLoop(DOMAIN sh, st0, live)
    IN  CreateLoop(DOMAIN live, st1, live, fail)

\* ------------------------------------------------------------ arithmetic
Abs(n) == IF n < 0 THEN -n ELSE n

RECURSIVE GCD(_, _)
GCD(a, b) == IF b = 0 THEN a ELSE GCD(b, a % b)

\* exact rationals <<n, d>> in lowest terms, d > 0
Norm(n, d) ==
    LET g == GCD(Abs(n), Abs(d))
        sg == IF d < 0 THEN -1 ELSE 1
    IN  <<(sg * n) \div g, (sg * d) \div g>>
IntR(n) == <<n, 1>>
RAdd(a, b) ==
    LET l == (a[2] \div GCD(a[2], b[2])) * b[2]
    IN  Norm(a[1] * (l \div a[2]) + b[1] * (l \div b[2]), l)
RNeg(a) == <<-a[1], a[2]>>
RSub(a, b) == RAdd(a, RNeg(b))
RMul(a, b) ==
    LET x == Norm(a[1], b[2])
        y == Norm(b[1], a[2])
    IN  <<x[1] * y[1], x[2] * y[2]>>
RDiv(a, b) == RMul(a, Norm(b[2], b[1]))

Zero3 == <<IntR(0), IntR(0), IntR(0)>>
VAdd(u, v) == <<RAdd(u[1], v[1]), RAdd(u[2], v[2]), RAdd(u[3], v[3])>>
VSub(u, v) == <<RSub(u[1], v[1]), RSub(u[2], v[2]), RSub(u[3], v[3])>>
VScale(r, v) == <<RMul(r, v[1]), RMul(r, v[2]), RMul(r, v[3])>>

\* fmod(x, y) for y > 0: the remainder has the sign of x
Fmod(x, y) == IF x >= 0 THEN x % y ELSE -((-x) % y)
FMax(a, b) == IF a > b THEN a ELSE b
FMin(a, b) == IF a < b THEN a ELSE b

\* cosine and sine of the angles the pan and zoom checks use: the quarter
\* turns and the angle of the 3-4-5 triangle (0.93 rad)
CosSin(a) ==
    CASE a = 0 -> <<IntR(1), IntR(0)>>
      [] a = 93 -> <<(<<3, 5>>), (<<4, 5>>)>>
      [] a = -93 -> <<(<<3, 5>>), (<<-4, 5>>)>>
      [] a = HalfPi \/ a = -3 * HalfPi -> <<IntR(0), IntR(1)>>
      [] a = -HalfPi \/ a = 3 * HalfPi -> <<IntR(0), IntR(-1)>>
      [] a = 2 * HalfPi \/ a = -2 * HalfPi -> <<IntR(-1), IntR(0)>>

\* Eigen::AngleAxisf(a, UnitZ()) and (a, UnitX()) applied to a vector
RotZ(a, v) ==
    LET c == CosSin(a)[1]
        sn == CosSin(a)[2]
    IN  <<RSub(RMul(c, v[1]), RMul(sn, v[2])),
          RAdd(RMul(sn, v[1]), RMul(c, v[2])), v[3]>>
RotX(a, v) ==
    LET c == CosSin(a)[1]
        sn == CosSin(a)[2]
    IN  <<v[1], RSub(RMul(c, v[2]), RMul(sn, v[3])),
          RAdd(RMul(sn, v[2]), RMul(c, v[3]))>>

\* powf(1.01f, scroll) for the scroll amounts of the model
PowScroll(scroll) ==
    CASE scroll = 1 -> <<101, 100>>
      [] scroll = -1 -> <<100, 101>>

\* ---------------------------------------------------------- view transform
\* main.cpp:126-130 - model = translate(center) scale(scale) rotZ(yaw) rotX(pitch)
ModelMat(c, sc, pitch, yaw) == [center |-> c, scale |-> sc, pitch |-> pitch, yaw |-> yaw]
ModelApply(m, v) ==
    VAdd(m.center, VScale(m.scale, RotZ(m.yaw, RotX(m.pitch, v))))

\* main.cpp:132-135 - view = scale(s, -s, 1) translate(-w/2, -h/2, 0)
ViewMat(d) == [w |-> d[1], h |-> d[2]]
ViewApply(vm, p) ==
    LET k == Norm(2, FMax(vm.w, vm.h))
    IN  <<RMul(k, RSub(p[1], Norm(vm.w, 2))),
          RNeg(RMul(k, RSub(p[2], Norm(vm.h, 2)))), p[3]>>

\* model * view * p, the world position main.cpp computes for a screen point
ToWorld(vs, p) == ModelApply(vs.model, ViewApply(vs.view, p))

\* inverse(model * view) * p
ModelInverse(m, w) ==
    RotX(-m.pitch, RotZ(-m.yaw, VScale(RDiv(IntR(1), m.scale), VSub(w, m.center))))
ViewInverse(vm, q) ==
    LET k == Norm(2, FMax(vm.w, vm.h))
    IN  <<RAdd(RDiv(q[1], k), Norm(vm.w, 2)),
          RAdd(RNeg(RDiv(q[2], k)), Norm(vm.h, 2)), q[3]>>
InverseOfModelView(vs, p) == ViewInverse(vs.view, ModelInverse(vs.model, p))

\* the view state and the two matrices as one record
ViewRec == [center |-> view_center, scale |-> view_scale, pitch |-> view_pitch,
            yaw |-> view_yaw, model |-> model, view |-> view]

\* main.cpp:125-136 - update_mats
UpdateMats(vs, d) ==
    [vs EXCEPT !.model = ModelMat(vs.center, vs.scale, vs.pitch, vs.yaw),
               !.view = ViewMat(d)]

Screen(p) == <<IntR(p[1]), IntR(p[2]), IntR(0)>>

\* main.cpp:192-193 - the shift of the centre for a drag
PanShiftSwapped(vs, mouse, drag) ==
    VSub(ToWorld(vs, Screen(mouse)),
         ToWorld(vs, Screen(<<mouse[1] - drag[1], mouse[2] - drag[2]>>)))
PanShift(vs, mouse, drag) ==
    VSub(ToWorld(vs, Screen(<<mouse[1] - drag[1], mouse[2] - drag[2]>>)),
         ToWorld(vs, Screen(mouse)))

\* main.cpp:189-196
PanStep(vs, mouse, drag, d) ==
    UpdateMats([vs EXCEPT !.center = VAdd(@, PanShift(vs, mouse, drag))], d)

\* main.cpp:202-203
ClampPitchUpperOnly(p) == FMin(HalfPi, p)
ClampPitch(p) == FMin(HalfPi, FMax(-HalfPi, p))

\* main.cpp:204
WrapYaw(y) == Fmod(y, TwoPi)

\* main.cpp:198-207 - the drag is in pixels, the angles change by d / 100
RotateStep(vs, drag, d) ==
    UpdateMats([vs EXCEPT !.yaw = WrapYaw(@ - drag[1]),
                          !.pitch = ClampPitch(@ - drag[2])], d)

\* main.cpp:225 - the centre after the scale changed
ZoomShiftNone(c, start, end) == c
ZoomShift(c, start, end) == VSub(c, VSub(end, start))

\* main.cpp:226
UpdateMatsAfterShiftSkipped(vs, d) == vs
UpdateMatsAfterShift(vs, d) == UpdateMats(vs, d)

\* main.cpp:210-227
ZoomStep(vs, mouse, scroll, d) ==
    LET start == ToWorld(vs, Screen(mouse))
        v1 == UpdateMats([vs EXCEPT !.scale = RMul(@, PowScroll(scroll))], d)
        end == ToWorld(v1, Screen(mouse))
    IN  UpdateMatsAfterShift([v1 EXCEPT !.center = ZoomShift(@, start, end)], d)

\* main.cpp:184
HandlesMouseAlways(capture) == TRUE
HandlesMouse(capture) == ~capture

NoDrag == <<"none">>
NoEvent == [kind |-> "none"]
NoInput == [capture |-> FALSE, mouse |-> <<0, 0>>, ldrag |-> NoDrag,
            rdrag |-> NoDrag, scroll |-> 0]

\* main.cpp:183-228 - the view record after the handlers of one frame ran
AfterPan(vs, in, d) ==
    IF HandlesMouse(in.capture) /\ in.ldrag # NoDrag
    THEN PanStep(vs, in.mouse, in.ldrag, d) ELSE vs
AfterRotate(vs, in, d) ==
    IF HandlesMouse(in.capture) /\ in.rdrag # NoDrag
    THEN RotateStep(vs, in.rdrag, d) ELSE vs
AfterZoom(vs, in, d) ==
    IF HandlesMouse(in.capture) /\ in.scroll # 0
    THEN ZoomStep(vs, in.mouse, in.scroll, d) ELSE vs

\* ------------------------------------------------------------------ script
\* the position of the first line feed of a content, 0 if there is none
FirstLF(c) ==
    IF \E i \in DOMAIN c : c[i] = "\n"
    THEN CHOOSE i \in DOMAIN c : c[i] = "\n" /\ \A j \in 1..(i - 1) : c[j] # "\n"
    ELSE 0

\* main.cpp:94-98 - the std::getline loop over the content of a file
RECURSIVE GetLines(_)
GetLines(c) ==
    IF c = <<>> THEN <<>>
    ELSE IF FirstLF(c) = 0 THEN <<c>>
    ELSE <<SubSeq(c, 1, FirstLF(c) - 1)>>
             \o GetLines(SubSeq(c, FirstLF(c) + 1, Len(c)))

\* editor.SetTextLines: an editor always has at least one line
SetTextLines(lines) == IF lines = <<>> THEN << <<>> >> ELSE lines

\* main.cpp:235-237 - every line of the buffer followed by a line feed
RECURSIVE WriteLines(_)
WriteLines(lines) ==
    IF lines = <<>> THEN <<>>
    ELSE Head(lines) \o <<"\n">> \o WriteLines(Tail(lines))

\* main.cpp:232 - a write is attempted
AttemptsWriteAlways(saved, loaded) == loaded
AttemptsWrite(saved, loaded) == ~saved /\ loaded

NoKeys == [capture |-> FALSE, keys |-> FALSE, openOk |-> TRUE]

\* ------------------------------------------------------------ render pass
\* main.cpp:342
AppendInitTrue == TRUE
AppendInit == FALSE

\* main.cpp:409
AppendAfterShapeFalse == FALSE
AppendAfterShape == TRUE

\* main.cpp:344 - the keys the loop over shapes visits
LoopKeysNeverEmpty(sh) == IF DOMAIN sh = {} THEN {1} ELSE DOMAIN sh
LoopKeys(sh) == DOMAIN sh

\* main.cpp:315
NeedsReallocGrow(size, c) == size > c.image_size_px
NeedsRealloc(size, c) == size # c.image_size_px

\* one collaborator call with the arguments and settings it is made with
Call(op, id) ==
    [op |-> op, id |-> id, ctx |-> ctx, size |-> render_size,
     append |-> append, mode |-> render_mode, model |-> model]

\* main.cpp:357-367
RenderCall(id) ==
    IF render_dimension = 2 THEN <<Call("render2D", id)>>
                            ELSE <<Call("render3D", id)>>

\* effects.drawSSAO(ctx) / effects.drawShaded(ctx): the passes they run
DrawSSAO(id) ==
    <<Call("drawSSAO", id), Call("ssao_pass", id)>>
DrawShaded(id) ==
    <<Call("drawShaded", id), Call("ssao_pass", id),
      Call("shade_pass", id)>>

\* main.cpp:372-384
EffectsCallsNoSSAO(id) ==
    IF render_mode = RENDER_MODE_SHADED THEN DrawShaded(id) ELSE <<>>
EffectsCalls(id) ==
    IF render_mode = RENDER_MODE_SSAO THEN DrawSSAO(id)
    ELSE IF render_mode = RENDER_MODE_SHADED THEN DrawShaded(id)
    ELSE <<>>

\* copy_to_texture(ctx, effects, cuda_tex, TEXTURE_SIZE, append, mode):
\* without append every texture pixel is written, filled or empty; with
\* append only filled pixels are written (main.cpp:407-408)
CopyToTexture(t, image, app) ==
    [p \in Pixels |-> IF p \in image THEN 1 ELSE IF app THEN t[p] ELSE 0]

\* --------------------------------------------------------------------- Init
\* main.cpp:61 - glfwCreateWindow(1280, 720, ...)
WindowSize == <<1280, 720>>

\* main.cpp:117-137 - the view state, and the matrices update_mats builds
InitView ==
    /\ view_center = Zero3
    /\ view_scale = IntR(2)
    /\ view_pitch = 0
    /\ view_yaw = 0
    /\ display = WindowSize
    /\ model = ModelMat(Zero3, IntR(2), 0, 0)
    /\ view = ViewMat(WindowSize)
    /\ input = NoInput
    /\ panned = NoEvent
    /\ zoomed = NoEvent
    /\ pz = 0

\* main.cpp:75-164 - the state main enters the loop with
InitProgram ==
    /\ shapes = EmptyMap
    /\ ishapes = EmptyMap
    /\ result_valid = FALSE
    /\ needs_eval = TRUE
    /\ render_size = 256
    /\ render_dimension = 3
    /\ render_mode = RENDER_MODE_NORMALS
    /\ ctx = [image_size_px |-> 256, alloc |-> 0]
    /\ append = FALSE
    /\ itr = {}
    /\ tex = [p \in Pixels |-> 0]
    /\ calls = <<>>
    /\ prevCtx = [image_size_px |-> 256, alloc |-> 0]
    /\ images = <<>>
    /\ synced = FALSE
    /\ syncFrom = {}
    /\ compiled = ZeroCount
    /\ released = ZeroCount
    /\ failed = 0
    /\ lastGood = EmptyMap
    /\ rfailed = 0

\* main.cpp:90-106, 156 - no script argument: the editor starts empty
InitScript ==
    /\ from_file = FALSE
    /\ just_saved = FALSE
    /\ text = SetTextLines(<<>>)
    /\ file = <<>>
    /\ kbd = NoKeys
    /\ prevKeys = FALSE
    /\ reported = FALSE
    /\ attempted = FALSE
    /\ sinceWrite = FALSE

\* main.cpp:45-48 - main is entered
InitProcess ==
    /\ pc = "init"
    /\ init = "pending"
    /\ status = -1
    /\ started = FALSE
    /\ should_close = FALSE

Init ==
    /\ InitProcess
    /\ InitProgram
    /\ InitView
    /\ InitScript

\* ------------------------------------------------------------------ actions
\* main.cpp:49, 61-64, 69-73 - a failed initialisation step returns 1
InitFailsNever(r) == FALSE
InitFails(r) == r # "ok"

\* outcomes of the initialisation: all steps succeed, or the step that fails
InitOutcomes == {"ok", "glfwInit", "glfwCreateWindow", "glewInit"}

\* main.cpp:47-164 - glfwInit, glfwCreateWindow, glewInit and the set-up
Initialize(r) ==
    /\ pc = "init"
    /\ init' = r
    /\ pc' = IF InitFails(r) THEN "done" ELSE "loop"
    /\ status' = IF InitFails(r) THEN 1 ELSE status
    /\ UNCHANGED <<shapes, ishapes, result_valid, needs_eval, render_size,
                   render_dimension, render_mode, ctx, append, itr, tex, calls,
                   prevCtx, images, synced, syncFrom, compiled, released, failed,
                   lastGood, rfailed, viewVars, saveVars, started, should_close>>

\* main.cpp:166-181 - the loop condition holds and a frame starts: events are
\* polled, which may set the close flag of the window; update_mats
FrameBegin(close) ==
    /\ pc = "loop"
    /\ ~should_close
    /\ should_close' = close
    /\ started' = TRUE
    /\ pc' = "input"
    /\ model' = UpdateMats(ViewRec, display).model
    /\ view' = UpdateMats(ViewRec, display).view
    /\ input' = NoInput
    /\ calls' = <<>>
    /\ prevCtx' = ctx
    /\ images' = <<>>
    /\ UNCHANGED <<shapes, ishapes, result_valid, needs_eval, render_size,
                   render_dimension, render_mode, ctx, append, itr, tex,
                   synced, syncFrom, compiled, released, failed, lastGood>>
    /\ UNCHANGED rfailed
    /\ UNCHANGED <<view_center, view_scale, view_pitch, view_yaw, display, panned, zoomed, pz>>
    /\ prevKeys' = kbd.keys
    /\ kbd' = NoKeys
    /\ reported' = FALSE
    /\ attempted' = FALSE
    /\ UNCHANGED <<from_file, just_saved, text, file, sinceWrite>>
    /\ UNCHANGED <<init, status>>

\* main.cpp:166, 452-460 - glfwWindowShouldClose, cleanup, return 0
Exit ==
    /\ pc = "loop"
    /\ should_close
    /\ status' = 0
    /\ pc' = "done"
    /\ UNCHANGED <<shapes, ishapes, result_valid, needs_eval, render_size,
                   render_dimension, render_mode, ctx, append, itr, tex, calls,
                   prevCtx, images, synced, syncFrom, compiled, released, failed,
                   lastGood>>
    /\ UNCHANGED rfailed
    /\ UNCHANGED viewVars
    /\ UNCHANGED saveVars
    /\ UNCHANGED <<init, started, should_close>>

\* the inputs of one frame: capture flag, cursor, drags and wheel
Inputs(caps, mice, ldrags, rdrags, scrolls) ==
    [capture : caps, mouse : mice, ldrag : ldrags, rdrag : rdrags,
     scroll : scrolls]

\* main.cpp:183-228 - the pointer handlers: pan, rotate, zoom, in this order
Input(in) ==
    /\ pc = "input"
    /\ LET v0 == ViewRec
           v1 == AfterPan(v0, in, display)
           v2 == AfterRotate(v1, in, display)
           v3 == AfterZoom(v2, in, display)
           didPan == HandlesMouse(in.capture) /\ in.ldrag # NoDrag
           didZoom == HandlesMouse(in.capture) /\ in.scroll # 0
           a == <<in.mouse[1] - in.ldrag[1], in.mouse[2] - in.ldrag[2]>>
       IN  /\ pz + (IF didPan THEN 1 ELSE 0) + (IF didZoom THEN 1 ELSE 0)
                 <= MaxPanZoom
           /\ pz' = pz + (IF didPan THEN 1 ELSE 0) + (IF didZoom THEN 1 ELSE 0)
           /\ view_center' = v3.center
           /\ view_scale' = v3.scale
           /\ view_pitch' = v3.pitch
           /\ view_yaw' = v3.yaw
           /\ model' = v3.model
           /\ view' = v3.view
           /\ panned' = IF didPan
                        THEN [kind |-> "pan", a |-> a, b |-> in.mouse,
                              before |-> ToWorld(v0, Screen(a)),
                              after |-> ToWorld(v1, Screen(in.mouse)),
                              rest0 |-> <<v0.scale, v0.pitch, v0.yaw>>,
                              rest1 |-> <<v1.scale, v1.pitch, v1.yaw>>,
                              center0 |-> v0.center, center1 |-> v1.center]
                        ELSE panned
           /\ zoomed' = IF didZoom
                        THEN [kind |-> "zoom", p |-> in.mouse, s |-> in.scroll,
                              before |-> ToWorld(v2, Screen(in.mouse)),
                              after |-> ToWorld(v3, Screen(in.mouse)),
                              inv0 |-> InverseOfModelView(v2, Screen(in.mouse)),
                              inv1 |-> InverseOfModelView(v3, Screen(in.mouse)),
                              scale0 |-> v2.scale, scale1 |-> v3.scale,
                              center0 |-> v2.center, center1 |-> v3.center]
                        ELSE zoomed
    /\ input' = in
    /\ pc' = "save"
    /\ UNCHANGED <<shapes, ishapes, result_valid, needs_eval, render_size,
                   render_dimension, render_mode, ctx, append, itr, tex, calls,
                   prevCtx, images, synced, syncFrom, compiled, released, failed,
                   lastGood, rfailed, display>>
    /\ UNCHANGED saveVars
    /\ UNCHANGED procVars

\* main.cpp:230-247 - Super+S under !io.WantCaptureKeyboard
Save(k) ==
    /\ pc = "save"
    /\ IF k.capture
       THEN UNCHANGED <<just_saved, file, reported, attempted, sinceWrite>>
       ELSE IF k.keys
            THEN IF AttemptsWrite(just_saved, from_file)
                 THEN /\ file' = IF k.openOk THEN WriteLines(text) ELSE file
                      /\ reported' = ~k.openOk
                      /\ just_saved' = TRUE
                      /\ attempted' = TRUE
                      /\ sinceWrite' = TRUE
                 ELSE UNCHANGED <<just_saved, file, reported, attempted,
                                  sinceWrite>>
            ELSE /\ just_saved' = FALSE
                 /\ sinceWrite' = FALSE
                 /\ UNCHANGED <<file, reported, attempted>>
    /\ kbd' = k
    /\ pc' = "eval"
    /\ UNCHANGED <<shapes, ishapes, result_valid, needs_eval, render_size,
                   render_dimension, render_mode, ctx, append, itr, tex, calls,
                   prevCtx, images, synced, syncFrom, compiled, released, failed,
                   lastGood, rfailed, viewVars, from_file, text, prevKeys>>
    /\ UNCHANGED procVars

\* main.cpp:264-283 with needs_eval set: interpreter.eval, then the
\* synchronisation; an exception of mpr::Tape leaves main
EvalSync(ok, live, fail) ==
    /\ pc = "eval"
    /\ needs_eval
    /\ LET ev == Eval(ok, live, ishapes)
           st == Synchronize(shapes, ev.shapes, fail)
       IN  /\ ishapes' = ev.shapes
           /\ result_valid' = ev.result_valid
           /\ shapes' = st.shapes
           /\ compiled' = st.compiled
           /\ released' = st.released
           /\ failed' = st.failed
           /\ syncFrom' = DOMAIN shapes
           /\ synced' = TRUE
           /\ pc' = IF st.failed # 0 THEN "aborted" ELSE "editor"
           /\ lastGood' = IF ok /\ st.failed = 0 THEN st.shapes ELSE lastGood
    /\ UNCHANGED <<needs_eval, render_size, render_dimension, render_mode, ctx,
                   append, itr, tex, calls, prevCtx, images>>
    /\ UNCHANGED rfailed
    /\ UNCHANGED viewVars
    /\ UNCHANGED saveVars
    /\ UNCHANGED procVars

\* main.cpp:264 with needs_eval clear
SkipEval ==
    /\ pc = "eval"
    /\ ~needs_eval
    /\ pc' = "editor"
    /\ UNCHANGED <<shapes, ishapes, result_valid, needs_eval, render_size,
                   render_dimension, render_mode, ctx, append, itr, tex, calls,
                   prevCtx, images, synced, syncFrom, compiled, released, failed,
                   lastGood>>
    /\ UNCHANGED rfailed
    /\ UNCHANGED viewVars
    /\ UNCHANGED saveVars
    /\ UNCHANGED procVars

\* main.cpp:285-302 - needs_eval = editor.Render(...): the editor reports an
\* edit or not, and an edit may leave other lines in the buffer
EditorRender(edited, t) ==
    /\ pc = "editor"
    /\ t # text => edited
    /\ text' = t
    /\ needs_eval' = edited
    /\ pc' = "settings"
    /\ synced' = FALSE
    /\ syncFrom' = {}
    /\ compiled' = ZeroCount
    /\ released' = ZeroCount
    /\ failed' = 0
    /\ UNCHANGED <<shapes, ishapes, result_valid, render_size,
                   render_dimension, render_mode, ctx, append, itr, tex, calls,
                   prevCtx, images, lastGood>>
    /\ UNCHANGED rfailed
    /\ UNCHANGED viewVars
    /\ UNCHANGED <<viewVars, from_file, just_saved, file, kbd, prevKeys, reported,
                   attempted, sinceWrite>>
    /\ UNCHANGED procVars

\* the widget the user clicks in a frame, at most one
NoClick == <<"none", 0>>
Clicks == {NoClick}
          \cup {<<"size", s>> : s \in RenderSizes}
          \cup {<<"dim", d>> : d \in {2, 3}}
          \cup {<<"mode", m>> : m \in Modes3D}

\* main.cpp:304-342 - the settings window, the resize check, append = false
Settings(click) ==
    /\ pc = "settings"
    /\ LET size == IF click[1] = "size" THEN click[2] ELSE render_size
           dim == IF click[1] = "dim" THEN click[2] ELSE render_dimension
           mode == IF dim = 3
                   THEN IF click[1] = "mode" THEN click[2] ELSE render_mode
                   ELSE RENDER_MODE_2D
       IN  /\ render_size' = size
           /\ ctx' = IF NeedsRealloc(size, ctx) THEN Context(size, ctx) ELSE ctx
           /\ render_dimension' = dim
           /\ render_mode' = mode
    /\ prevCtx' = ctx
    /\ append' = AppendInit
    /\ itr' = LoopKeys(shapes)
    /\ pc' = "shapes"
    /\ UNCHANGED <<shapes, ishapes, result_valid, needs_eval, tex, calls,
                   images, synced, syncFrom, compiled, released, failed, lastGood>>
    /\ UNCHANGED rfailed
    /\ UNCHANGED viewVars
    /\ UNCHANGED saveVars
    /\ UNCHANGED procVars

\* main.cpp:344-410 - the body of the loop over shapes for the next key;
\* image is what the render call leaves in the context's buffers, and with
\* rfail the render call throws, which leaves main
DrawShape(image, rfail) ==
    /\ pc = "shapes"
    /\ itr # {}
    /\ LET id == Min(itr) IN
        IF rfail
        THEN /\ calls' = calls \o RenderCall(id)
             /\ rfailed' = id
             /\ pc' = "aborted"
             /\ UNCHANGED <<tex, images, itr, append>>
        ELSE /\ calls' = calls \o RenderCall(id) \o EffectsCalls(id)
                               \o <<Call("copy_to_texture", id)>>
             /\ tex' = CopyToTexture(tex, image, append)
             /\ images' = Append(images, image)
             /\ itr' = itr \ {id}
             /\ append' = AppendAfterShape
             /\ UNCHANGED <<pc, rfailed>>
    /\ UNCHANGED <<shapes, ishapes, result_valid, needs_eval, render_size,
                   render_dimension, render_mode, ctx, prevCtx, synced,
                   syncFrom, compiled, released, failed, lastGood>>
    /\ UNCHANGED viewVars
    /\ UNCHANGED saveVars
    /\ UNCHANGED procVars

\* main.cpp:412-449 - the loop over shapes is over; draw lists, swap buffers
FrameEnd ==
    /\ pc = "shapes"
    /\ itr = {}
    /\ pc' = "loop"
    /\ UNCHANGED <<shapes, ishapes, result_valid, needs_eval, render_size,
                   render_dimension, render_mode, ctx, append, itr, tex, calls,
                   prevCtx, images, synced, syncFrom, compiled, released, failed,
                   lastGood>>
    /\ UNCHANGED rfailed
    /\ UNCHANGED viewVars
    /\ UNCHANGED saveVars
    /\ UNCHANGED procVars

\* identities whose tape the synchronisation would construct
NewIds(live) == {k \in DOMAIN live : k \notin DOMAIN shapes}

\* The whole loop, every input free. The properties below are checked under
\* SpecSync, SpecComposite and SpecRender, each of which lets the inputs of
\* one stage vary and holds the inputs of the other stages fixed.
Next ==
    \/ \E r \in InitOutcomes : Initialize(r)
    \/ \E close \in BOOLEAN : FrameBegin(close)
    \/ Exit
    \/ Input(NoInput)
    \/ Save(NoKeys)
    \/ \E live \in LiveMaps : \E fail \in {0} \cup NewIds(live) :
          EvalSync(TRUE, live, fail)
    \/ EvalSync(FALSE, ishapes, 0)
    \/ SkipEval
    \/ \E edited \in BOOLEAN : EditorRender(edited, text)
    \/ \E click \in Clicks : Settings(click)
    \/ \E image \in SUBSET Pixels, rfail \in BOOLEAN : DrawShape(image, rfail)
    \/ FrameEnd

Spec == Init /\ [][Next]_vars

\* The synchronisation under every evaluation outcome, with compile and
\* render failures; the settings window is left alone and every render
\* output is empty.
NextSync ==
    \/ \E r \in InitOutcomes : Initialize(r)
    \/ FrameBegin(FALSE)
    \/ Input(NoInput)
    \/ Save(NoKeys)
    \/ \E live \in LiveMaps : \E fail \in {0} \cup NewIds(live) :
          EvalSync(TRUE, live, fail)
    \/ EvalSync(FALSE, ishapes, 0)
    \/ SkipEval
    \/ \E edited \in BOOLEAN : EditorRender(edited, text)
    \/ Settings(NoClick)
    \/ \E rfail \in BOOLEAN : DrawShape({}, rfail)
    \/ FrameEnd

SpecSync == Init /\ [][NextSync]_vars

\* evaluations that are valid, bind one expression and compile
KeyMaps == {[k \in S |-> "x"] : S \in SUBSET Ids}

\* The composition into the texture under every render output; evaluations
\* only choose the key set and the settings window is left alone.
NextComposite ==
    \/ \E r \in InitOutcomes : Initialize(r)
    \/ FrameBegin(FALSE)
    \/ Input(NoInput)
    \/ Save(NoKeys)
    \/ \E live \in KeyMaps : EvalSync(TRUE, live, 0)
    \/ SkipEval
    \/ \E edited \in BOOLEAN : EditorRender(edited, text)
    \/ Settings(NoClick)
    \/ \E image \in SUBSET Pixels : DrawShape(image, FALSE)
    \/ FrameEnd

SpecComposite == Init /\ [][NextComposite]_vars

\* The render pass under every click; evaluations only choose the key set
\* and every render output is empty.
NextRender ==
    \/ \E r \in InitOutcomes : Initialize(r)
    \/ FrameBegin(FALSE)
    \/ Input(NoInput)
    \/ Save(NoKeys)
    \/ \E live \in KeyMaps : EvalSync(TRUE, live, 0)
    \/ SkipEval
    \/ \E edited \in BOOLEAN : EditorRender(edited, text)
    \/ \E click \in Clicks : Settings(click)
    \/ DrawShape({}, FALSE)
    \/ FrameEnd

SpecRender == Init /\ [][NextRender]_vars

\* right-button drag deltas of one frame, in pixels (main.cpp:199)
RDrags == {<<dx, dy>> : dx \in {-200, 0, 200}, dy \in {-100, 0, 100}}

\* The rotate handler under every capture flag and drag; the script is
\* empty and the settings window is left alone.
NextRotate ==
    \/ \E r \in InitOutcomes : Initialize(r)
    \/ FrameBegin(FALSE)
    \/ \E in \in Inputs(BOOLEAN, {<<0, 0>>}, {NoDrag}, RDrags \cup {NoDrag}, {0}) :
          Input(in)
    \/ Save(NoKeys)
    \/ EvalSync(TRUE, EmptyMap, 0)
    \/ SkipEval
    \/ EditorRender(FALSE, text)
    \/ Settings(NoClick)
    \/ FrameEnd

SpecRotate == Init /\ [][NextRotate]_vars

\* view states, display sizes (in units of 100 pixels) and inputs of the pan
\* and zoom checks
Centers == {Zero3, <<IntR(1), IntR(-2), IntR(3)>>}
Scales == {IntR(2), IntR(1)}
Pitches == {0, -HalfPi}
Yaws == {0, 93}
Displays == {<<8, 4>>, <<4, 8>>}
Mice == {<<1, 3>>, <<5, 0>>}
LDrags == {<<3, -2>>}
Scrolls == {1, -1}

\* a view state earlier input left, with the matrices of the last update_mats
InitPanZoom ==
    /\ pc = "loop"
    /\ init = "ok"
    /\ status = -1
    /\ started = FALSE
    /\ should_close = FALSE
    /\ InitProgram
    /\ view_center \in Centers
    /\ view_scale \in Scales
    /\ view_pitch \in Pitches
    /\ view_yaw \in Yaws
    /\ display \in Displays
    /\ model = ModelMat(view_center, view_scale, view_pitch, view_yaw)
    /\ view = ViewMat(display)
    /\ input = NoInput
    /\ panned = NoEvent
    /\ zoomed = NoEvent
    /\ pz = 0
    /\ InitScript

\* The pan and zoom handlers under every capture flag, cursor, left drag
\* and scroll; the script is empty and the settings window is left alone.
NextPanZoom ==
    \/ FrameBegin(FALSE)
    \/ \E in \in Inputs(BOOLEAN, Mice, LDrags \cup {NoDrag}, {NoDrag},
                        Scrolls \cup {0}) : Input(in)
    \/ Save(NoKeys)
    \/ EvalSync(TRUE, EmptyMap, 0)
    \/ SkipEval
    \/ EditorRender(FALSE, text)
    \/ Settings(NoClick)
    \/ FrameEnd

SpecPanZoom == InitPanZoom /\ [][NextPanZoom]_vars

\* contents of the script file, and buffers the editor can hold
FileContents == {<<>>, <<"a">>, <<"a", "\n">>, <<"\n", "a">>}
Texts == {SetTextLines(GetLines(c)) : c \in FileContents} \cup {<< <<"a">>, <<>> >>}
Keys == [capture : BOOLEAN, keys : BOOLEAN, openOk : BOOLEAN]

\* main.cpp:90-106 - the script argument: absent or unreadable, or loaded
InitSave ==
    /\ InitProcess
    /\ InitProgram
    /\ InitView
    /\ file \in FileContents
    /\ from_file \in BOOLEAN
    /\ text = IF from_file THEN SetTextLines(GetLines(file)) ELSE SetTextLines(<<>>)
    /\ just_saved = FALSE
    /\ kbd = NoKeys
    /\ prevKeys = FALSE
    /\ reported = FALSE
    /\ attempted = FALSE
    /\ sinceWrite = FALSE

\* The save handler under every keyboard input and outcome of opening the
\* file, with edits of the buffer; the script binds no shape.
NextSave ==
    \/ \E r \in InitOutcomes : Initialize(r)
    \/ FrameBegin(FALSE)
    \/ Input(NoInput)
    \/ \E k \in Keys : Save(k)
    \/ EvalSync(TRUE, EmptyMap, 0)
    \/ SkipEval
    \/ \E edited \in BOOLEAN, t \in Texts : EditorRender(edited, t)
    \/ Settings(NoClick)
    \/ FrameEnd

SpecSave == InitSave /\ [][NextSave]_vars

\* The loop from the initialisation to the return, under every outcome of
\* the initialisation, close signal, compile failure and render failure;
\* evaluations only choose the key set and there is no other input.
NextLoop ==
    \/ \E r \in InitOutcomes : Initialize(r)
    \/ \E close \in BOOLEAN : FrameBegin(close)
    \/ Exit
    \/ Input(NoInput)
    \/ Save(NoKeys)
    \/ \E live \in KeyMaps : \E fail \in {0} \cup NewIds(live) :
          EvalSync(TRUE, live, fail)
    \/ SkipEval
    \/ \E edited \in BOOLEAN : EditorRender(edited, text)
    \/ Settings(NoClick)
    \/ \E rfail \in BOOLEAN : DrawShape({}, rfail)
    \/ FrameEnd

SpecLoop == Init /\ [][NextLoop]_vars

\* inputs of the whole-frame checks: a cursor at the window corner, one left
\* drag, one right drag of half a turn, one scroll step, one script binding
\* one shape, a press of Super+S, a size click and a mode click
FrameInputs == Inputs(BOOLEAN, {<<0, 0>>}, {NoDrag, <<640, 360>>},
                      {NoDrag, <<2 * HalfPi, 0>>}, {0, 1})
FrameMaps == {EmptyMap, [k \in {1} |-> "x"]}
FrameKeys == {NoKeys, [capture |-> FALSE, keys |-> TRUE, openOk |-> TRUE]}
FrameClicks == {NoClick, <<"size", 512>>, <<"mode", RENDER_MODE_SHADED>>}

\* Whole frames under pointer input, saves, evaluations and clicks; nothing
\* fails and the window is not closed.
NextFrame ==
    \/ \E r \in InitOutcomes : Initialize(r)
    \/ FrameBegin(FALSE)
    \/ \E in \in FrameInputs : Input(in)
    \/ \E k \in FrameKeys : Save(k)
    \/ \E live \in FrameMaps : EvalSync(TRUE, live, 0)
    \/ SkipEval
    \/ \E edited \in BOOLEAN : EditorRender(edited, text)
    \/ \E click \in FrameClicks : Settings(click)
    \/ DrawShape({}, FALSE)
    \/ FrameEnd

SpecFrame == Init /\ [][NextFrame]_vars

\* ------------------------------------------------------------------ claims
\* positions of the copy_to_texture calls of the current frame
PublishIdx == {i \in DOMAIN calls : calls[i].op = "copy_to_texture"}

\* C1: when the render loop of a frame runs, and right after every
\* synchronisation, the keys of the compiled-shape map are exactly the keys
\* of the interpreter's shape mapping.
SyncKeysEqualLive ==
    (pc = "shapes" \/ (pc = "editor" /\ synced))
        => DOMAIN shapes = DOMAIN ishapes

\* C1 witness: a synchronisation between two disjoint non-empty live sets
SyncDisjointSets ==
    /\ pc = "editor" /\ synced
    /\ syncFrom # {} /\ DOMAIN ishapes # {}
    /\ syncFrom \cap DOMAIN ishapes = {}

\* C2: in a synchronisation from A to B every identity of A \ B is released
\* once, every identity of B \ A is compiled once, and an identity of both
\* is neither compiled nor released.
SyncCallCounts ==
    (pc = "editor" /\ synced) =>
        \A k \in Ids :
            /\ (k \in syncFrom \ DOMAIN ishapes) => released[k] = 1
            /\ (k \in DOMAIN ishapes \ syncFrom) => compiled[k] = 1
            /\ (k \in syncFrom \cap DOMAIN ishapes)
                   => (compiled[k] = 0 /\ released[k] = 0)

\* C2 witness: a synchronisation that drops one identity, adds one and keeps one
SyncDropAddKeep ==
    /\ pc = "editor" /\ synced
    /\ syncFrom \ DOMAIN ishapes # {}
    /\ DOMAIN ishapes \ syncFrom # {}
    /\ syncFrom \cap DOMAIN ishapes # {}

\* C3: while an identity stays in the live set its entry (tape and tree) is
\* the one built when it appeared; no synchronisation compiles or releases
\* for it, whatever expression the evaluation binds to it.
EntryKeptWhileLive ==
    [][\A k \in Ids :
          (k \in DOMAIN shapes /\ k \in DOMAIN ishapes') =>
              /\ k \in DOMAIN shapes'
              /\ shapes'[k] = shapes[k]
              /\ (synced' /\ ~synced) => (compiled'[k] = 0 /\ released'[k] = 0)]_vars

\* C3 witness: after a synchronisation a kept identity is bound to another
\* expression than the one its entry was built from
KeptEntryIsStale ==
    /\ pc = "editor" /\ synced
    /\ \E k \in syncFrom \cap DOMAIN shapes :
          k \in DOMAIN ishapes /\ shapes[k].tree # ishapes[k]

\* C4: when the compilation of one new identity fails, that identity is left
\* out of the map, every other live identity is in the map and the frame
\* loop goes on.
CompileFailureOmitsOnlyThatShape ==
    failed # 0 =>
        /\ pc # "aborted"
        /\ DOMAIN shapes = DOMAIN ishapes \ {failed}

AppendFalseOnlyFirst ==
    \A i \in PublishIdx :
        calls[i].append = (\E j \in PublishIdx : j < i)

\* C6 witness: a frame that has published three shapes
ThreePublishes ==
    /\ pc = "shapes" /\ itr = {}
    /\ Cardinality(PublishIdx) >= 3

\* C7: once a frame has published, a texture pixel is valid exactly when
\* some shape published in that frame filled it: nothing of earlier frames
\* is left and no valid pixel of the frame was emptied.
TextureIsFrameUnion ==
    PublishIdx # {} =>
        \A p \in Pixels :
            tex[p] = 1 <=> (\E i \in DOMAIN images : p \in images[i])

\* C7 witness: a later shape of the frame left empty a pixel an earlier one
\* filled, and another pixel is empty in all of them
LaterShapeLeavesPixel ==
    /\ \E i, j \in DOMAIN images : \E p \in Pixels :
          i < j /\ p \in images[i] /\ p \notin images[j] /\ tex[p] = 1
    /\ \E q \in Pixels : tex[q] = 0

\* C8: every call of a frame is made on the current surface, whose size is
\* the requested size; when the request differed from the surface the frame
\* found, the surface is another allocation and no call used the old one.
SurfaceMatchesRequest ==
    /\ pc = "shapes" => ctx.image_size_px = render_size
    /\ \A i \in DOMAIN calls :
          calls[i].ctx = ctx /\ calls[i].size = ctx.image_size_px
    /\ (pc = "shapes" /\ prevCtx.image_size_px # render_size) =>
          /\ ctx.alloc # prevCtx.alloc
          /\ \A i \in DOMAIN calls : calls[i].ctx # prevCtx

\* C8 witness: shapes drawn in a frame that asked for a smaller surface
DrawnAfterShrink ==
    /\ pc = "shapes" /\ calls # <<>>
    /\ render_size < prevCtx.image_size_px

\* C9: a shape is rendered with render2D exactly when the mode handed to
\* copy_to_texture is the 2D mode, and with render3D exactly when it is one
\* of DEPTH, NORMALS, SSAO, SHADED.
RenderPathMatchesMode ==
    \A i \in PublishIdx : \A j \in 1..(i - 1) :
        calls[j].id = calls[i].id =>
            /\ calls[j].op = "render2D" => calls[i].mode = RENDER_MODE_2D
            /\ calls[j].op = "render3D" => calls[i].mode \in Modes3D

\* C10: the effects collaborator is called for a shape exactly when the mode
\* is SSAO or SHADED, and in SHADED mode an SSAO pass runs before the
\* shading pass.
EffectsExactlyForSSAOAndShaded ==
    \A i \in PublishIdx :
        LET mine == {j \in 1..(i - 1) : calls[j].id = calls[i].id}
            eff == {j \in mine : calls[j].op \in {"drawSSAO", "drawShaded"}}
        IN  /\ eff # {} <=> calls[i].mode \in {RENDER_MODE_SSAO, RENDER_MODE_SHADED}
            /\ calls[i].mode = RENDER_MODE_SHADED =>
                  \E j, k \in mine :
                      /\ j < k
                      /\ calls[j].op = "ssao_pass"
                      /\ calls[k].op = "shade_pass"

\* C10 witness: a shape published in SHADED mode after another in the frame
ShadedPublished ==
    \E i \in PublishIdx :
        calls[i].mode = RENDER_MODE_SHADED /\ calls[i].append

\* C11: when the render call of one shape fails, that shape is not published
\* in the frame, the other shapes of the frame are rendered and published,
\* and the frame loop goes on with the shape map intact.
RenderFailureSkipsOnlyThatShape ==
    rfailed # 0 =>
        /\ pc # "aborted"
        /\ (pc = "shapes" /\ itr = {}) =>
              {calls[i].id : i \in PublishIdx} = DOMAIN shapes \ {rfailed}

\* C12: after any sequence of right-button drags the yaw of the view state
\* is at least 0 and less than 2*pi.
YawInRange ==
    0 <= view_yaw /\ view_yaw < TwoPi

\* C13: after any sequence of right-button drags from the initial pitch 0
\* the pitch is within [-pi/2, pi/2].
PitchClamped ==
    -HalfPi <= view_pitch /\ view_pitch <= HalfPi

\* C13 witness: a drag that would take the pitch below -pi/2 leaves it there
PitchHeldAtLowerBound ==
    /\ pc = "eval"
    /\ input.rdrag # NoDrag
    /\ input.rdrag[2] > 0
    /\ view_pitch = -HalfPi
    /\ model.pitch = -HalfPi

\* C14 as stated: the point inverse(model * view) * p is the same before and
\* after a zoom by s at p, and the scale is multiplied by 1.01^s.
ZoomKeepsInverseImage ==
    zoomed.kind = "zoom" =>
        /\ zoomed.inv0 = zoomed.inv1
        /\ zoomed.scale1 = RMul(zoomed.scale0, PowScroll(zoomed.s))

\* C14 amended: the point model * view * p, which main.cpp takes as the world
\* position of the screen point p, is the same before and after a zoom by s
\* at p (in exact arithmetic), and the scale is multiplied by 1.01^s.
ZoomKeepsWorldPoint ==
    zoomed.kind = "zoom" =>
        /\ zoomed.before = zoomed.after
        /\ zoomed.scale1 = RMul(zoomed.scale0, PowScroll(zoomed.s))

\* C14 witness: a zoom of a rotated view, cursor off the display centre,
\* that moved the centre of the view state
ZoomMovedCenter ==
    /\ pc = "eval"
    /\ input.scroll # 0
    /\ zoomed.kind = "zoom"
    /\ zoomed.p = input.mouse
    /\ view_yaw # 0 /\ view_pitch # 0
    /\ zoomed.center0 # zoomed.center1
    /\ view_center = zoomed.center1

\* C15: the point model * view * a before a left-button drag from a to b is
\* the point model * view * b after it (in exact arithmetic), and the pan
\* leaves scale, pitch and yaw as they were.
PanKeepsWorldPoint ==
    panned.kind = "pan" =>
        /\ panned.before = panned.after
        /\ panned.rest0 = panned.rest1

\* C15 witness: a pan of a rotated view that moved the centre
PanMovedCenter ==
    /\ pc = "eval"
    /\ input.ldrag # NoDrag
    /\ input.scroll = 0
    /\ panned.kind = "pan"
    /\ panned.a # panned.b /\ panned.b = input.mouse
    /\ view_yaw # 0 /\ view_pitch # 0
    /\ panned.center0 # panned.center1
    /\ view_center = panned.center1

\* C16: when Super+S goes down in a frame that does not capture the keyboard,
\* in a session loaded from a file, the file holds the editor buffer after
\* the save handler, or the failure to open it was reported and the file,
\* and the loop, are as before.
SaveWritesBuffer ==
    (pc = "eval" /\ from_file /\ ~kbd.capture /\ kbd.keys /\ ~prevKeys) =>
        IF kbd.openOk THEN file = WriteLines(text) ELSE reported

\* C17: when glfwInit, glfwCreateWindow or glewInit fails, main returns a
\* non-zero status and no frame ever runs: no evaluation, synchronisation,
\* render or publish call is made.
InitFailureEndsBeforeLoop ==
    init \in InitOutcomes \ {"ok"} =>
        /\ pc = "done"
        /\ status > 0
        /\ ~started
        /\ calls = <<>>
        /\ ~synced /\ compiled = ZeroCount /\ released = ZeroCount
        /\ shapes = EmptyMap /\ needs_eval

\* C17 witness: the last initialisation step failed and main returned 1
LoaderFailureReturned ==
    /\ init = "glewInit"
    /\ pc = "done"
    /\ status = 1

\* C18: a frame that has started is never abandoned, and main returns only
\* from the head of the loop with the close signal set, with status 0.
FrameRunsToSwap ==
    /\ pc # "aborted"
    /\ (pc = "done" /\ init = "ok") => (should_close /\ status = 0)

\* position of a stage in the frame
Rank(p) ==
    CASE p = "input" -> 1 [] p = "save" -> 2 [] p = "eval" -> 3
      [] p = "editor" -> 4 [] p = "settings" -> 5 [] p = "shapes" -> 6
      [] OTHER -> 0

RenderOps == {"render2D", "render3D"}
EffectOps == {"drawSSAO", "drawShaded", "ssao_pass", "shade_pass"}

\* the calls made for one shape are a render call, then effects calls, then
\* one publish, and the calls of two shapes do not interleave
CallsInOrder(cs) ==
    \A i \in DOMAIN cs :
        /\ cs[i].op \in RenderOps =>
              (i = 1 \/ cs[i - 1].op = "copy_to_texture")
        /\ cs[i].op \notin RenderOps =>
              /\ i > 1
              /\ cs[i - 1].id = cs[i].id
              /\ cs[i - 1].op # "copy_to_texture"
        /\ (cs[i].op \in EffectOps /\ i > 1) =>
              cs[i - 1].op \in RenderOps \cup EffectOps

\* C19: in every frame the view state changes only in the input stage, the
\* synchronisation runs after it and only when an evaluation is due, the
\* context is replaced after that and before the first render call, each
\* shape gets its render call, then its effects calls, then its publish, and
\* every render call is given the model matrix of the view state the
\* frame's input left.
StagesInOrder ==
    [][/\ viewState' # viewState => pc = "input"
       /\ (synced' /\ ~synced) => (pc = "eval" /\ needs_eval)
       /\ ctx' # ctx => (pc = "settings" /\ calls = <<>>)
       /\ (calls' # calls /\ calls' # <<>>) => pc = "shapes"
       /\ Rank(pc) > 0 => (Rank(pc') >= Rank(pc) \/ pc' = "loop")
       /\ CallsInOrder(calls')
       /\ \A i \in DOMAIN calls' :
             calls'[i].op \in RenderOps =>
                 calls'[i].model = ModelMat(view_center', view_scale',
                                            view_pitch', view_yaw')]_vars

\* C19 witness: a frame whose scroll moved the centre, that replaced the
\* context, and rendered, shaded and published a shape
ZoomedResizedShadedFrame ==
    /\ pc = "shapes" /\ itr = {}
    /\ ~input.capture /\ input.scroll # 0
    /\ zoomed.kind = "zoom" /\ zoomed.center0 # zoomed.center1
    /\ view_center = zoomed.center1
    /\ ctx # prevCtx
    /\ Len(calls) = 5
    /\ calls[1].op = "render3D"
    /\ calls[2].op = "drawShaded"
    /\ calls[5].op = "copy_to_texture"

\* C20: centre, scale, pitch and yaw change only in the pointer handlers of
\* a frame that does not capture the mouse and has a left drag, a right drag
\* or a scroll.
ViewChangesOnlyInPointerHandlers ==
    [][viewState' # viewState =>
          /\ pc = "input"
          /\ ~input'.capture
          /\ (input'.ldrag # NoDrag \/ input'.rdrag # NoDrag
                 \/ input'.scroll # 0)]_vars

\* C20 witness: a frame that captured the mouse during drags and a scroll,
\* after a save, left the view state as main initialised it
CapturedInputLeftView ==
    /\ pc = "save"
    /\ input.capture
    /\ input.ldrag # NoDrag /\ input.rdrag # NoDrag /\ input.scroll # 0
    /\ prevKeys
    /\ viewState = <<Zero3, IntR(2), 0, 0>>

\* C21: in a frame whose compiled-shape map is empty no render, effect or
\* publish call is made, and the display texture changes only in the loop
\* over a non-empty map: an empty frame leaves it as the last drawing frame
\* left it.
EmptyFrameLeavesTexture ==
    [][/\ tex' # tex => (pc = "shapes" /\ DOMAIN shapes # {})
       /\ (pc' = "shapes" /\ DOMAIN shapes' = {}) => calls' = <<>>
       /\ (pc = "shapes" /\ DOMAIN shapes = {}) =>
              (tex' = tex /\ calls' = <<>>)]_vars

\* C21 witness: the loop of a frame with an empty map is over, and the
\* texture still holds a pixel an earlier frame filled
EmptyFrameKeepsOldPixel ==
    /\ pc = "shapes" /\ itr = {}
    /\ shapes = EmptyMap
    /\ lastGood = EmptyMap
    /\ calls = <<>>
    /\ \E p \in Pixels : tex[p] = 1

\* C22: the file is opened for writing only by the save handler of a frame
\* that does not capture the keyboard and sees Super+S down, in a session
\* loaded from a file, and not again after a write attempt until a frame
\* that does not capture the keyboard has seen Super+S up; the file changes
\* only in such an attempt.
WriteOncePerHold ==
    [][/\ (attempted' /\ ~attempted) =>
              /\ pc = "save"
              /\ from_file
              /\ ~sinceWrite
              /\ ~kbd'.capture /\ kbd'.keys
       /\ file' # file => (attempted' /\ ~attempted)]_vars

\* C22 witness: Super+S is still held in the frame after a write, the
\* buffer was edited in between, and the save handler wrote nothing
HeldKeysWriteNothing ==
    /\ pc = "eval"
    /\ from_file
    /\ ~kbd.capture /\ kbd.keys /\ kbd.openOk
    /\ prevKeys
    /\ sinceWrite /\ ~attempted
    /\ file # WriteLines(text)

====
